---- MODULE Spec2Model ----
(***************************************************************************)
(* Model of kolmo_core/agents/predictive_agent.py: the forecasting pass    *)
(* (four methods, backtest, metrics), the model selector and the           *)
(* persistence of predictions / metrics / model_selection with the         *)
(* canonicalization sweep.                                                  *)
(*                                                                         *)
(* Numbers.  A Python float is modelled as a fixed-point integer counting  *)
(* units of 1/Scale; float("nan") and float("inf") are the two values NaN  *)
(* and Inf outside the range of every finite value of the model.           *)
(* Timestamps are integers counting seconds.                               *)
(***************************************************************************)
EXTENDS Integers, Sequences, FiniteSets, TLC

\* ---------------------------------------------------------------- bounds
MaxLen     == 6   \* longest price history of a symbol
MaxPrice   == 2   \* prices are 1..MaxPrice
MaxHorizon == 1   \* horizons a caller may ask for are 1..MaxHorizon
MaxAsof    == 2   \* readings of the wall clock are 1..MaxAsof
MaxSmaLen  == 9   \* longest history of the runs that list sma_7 alone
MaxSteps   == 3   \* horizons of the single runs of SpecOne are 1..MaxSteps
MaxStamps  == 4   \* longest history of the runs of SpecFreq
NSims        == 8 \* n_sims, the simulated paths of forecast_gbm_mc (2000 in the code)
MantissaBits == 9 \* significant bits of a float in the mean over the paths (53)

\* ---------------------------------------------------------------- numbers
Scale == 2 * 2 * 3 * 5 * 7      \* lcm(1..7): every window mean of integers is exact
NaN   == 0 - 1000000000
Inf   == 1000000000

IsNaN(v) == v = NaN

FP(v) == v * Scale

Abs(v) == IF v < 0 THEN 0 - v ELSE v

\* floor division that rounds toward minus infinity is \div; keep NaN contagious
Sub(a, b) == IF IsNaN(a) \/ IsNaN(b) THEN NaN ELSE a - b

\* floor(sqrt(x)) for x >= 0, by bisection of lo..hi (lo * lo <= x < hi * hi)
RECURSIVE SqrtBetween(_, _, _)
SqrtBetween(lo, hi, x) ==
    IF hi - lo <= 1 THEN lo
    ELSE LET mid == (lo + hi) \div 2
         IN  IF mid <= x \div mid THEN SqrtBetween(mid, hi, x)
             ELSE SqrtBetween(lo, mid, x)

ISqrt(x) == IF x < 1 THEN 0 ELSE SqrtBetween(1, x + 1, x)

RECURSIVE SumSeq(_)
SumSeq(s) == IF s = <<>> THEN 0 ELSE Head(s) + SumSeq(Tail(s))

\* the entries of s that are not NaN, in order (numpy's nan-aware reductions)
RECURSIVE DropNaN(_)
DropNaN(s) ==
    IF s = <<>> THEN <<>>
    ELSE IF IsNaN(Head(s)) THEN DropNaN(Tail(s))
         ELSE <<Head(s)>> \o DropNaN(Tail(s))

\* np.nanmean: the mean of the entries that are not NaN, NaN when there is none
NanMean(s) ==
    LET d == DropNaN(s)
    IN  IF d = <<>> THEN NaN ELSE SumSeq(d) \div Len(d)

\* np.nanstd(s, ddof=1)
NanStd1(s) ==
    LET d == DropNaN(s)
        m == SumSeq(d) \div Len(d)
        sq == [i \in 1..Len(d) |-> (d[i] - m) * (d[i] - m)]
    IN  IF Len(d) < 2 THEN NaN ELSE ISqrt(SumSeq(sq) \div (Len(d) - 1))

\* ---------------------------------------------------------------- methods
DefaultMethods == <<"naive_last", "sma_7", "gbm_mc", "arima">>

KnownMethods == {"naive_last", "sma_7", "gbm_mc", "arima"}

\* what the statsmodels fit may do on one history: the library is not part of
\* the repository, so its outcome is an input of the run
\*   "raise_fc"  the forecast fit (or get_forecast / conf_int) raises
\*   "raise_bt"  the forecast succeeds, the in-sample prediction raises
\*   "nan"       both succeed, the in-sample predictions are all NaN
\*   "exact"     both succeed, the in-sample predictions equal the series
\*   "partial"   both succeed, the in-sample predictions are NaN but for the
\*               last position, predicted by the mean of the positions before it
ArimaFits == {"raise_fc", "raise_bt", "nan", "exact", "partial"}

\* y as floats: y.astype(float)
AsFloat(y) == [i \in 1..Len(y) |-> FP(y[i])]

\* y[y > 0]
RECURSIVE Positive(_)
Positive(y) ==
    IF y = <<>> THEN <<>>
    ELSE IF Head(y) > 0 THEN <<Head(y)>> \o Positive(Tail(y))
         ELSE Positive(Tail(y))

\* ---------------------------------------------------------------- growth
\* exp(mean(diff(log(pos)))) is (pos[k] / pos[1]) ^ (1 / (k - 1)): the sum of
\* the log-returns telescopes.  The factor is kept in units of 1/GScale.
GScale == 2 * 2 * 2 * 2

\* min(g ^ d, cap + 1), without leaving the integers TLC can hold
RECURSIVE PowCap(_, _, _)
PowCap(g, d, cap) ==
    IF d = 0 THEN 1
    ELSE LET r == PowCap(g, d - 1, cap)
         IN  IF r > cap THEN cap + 1
             ELSE IF g > 0 /\ r > cap \div g THEN cap + 1 ELSE r * g

\* the largest g with (g / GScale) ^ d <= num / den
RootRatio(num, den, d) ==
    LET cap == num * PowCap(GScale, d, Inf)
    IN  CHOOSE g \in 0..(num * GScale + 1) :
            /\ den * PowCap(g, d, cap) <= cap
            /\ den * PowCap(g + 1, d, cap) > cap

\* exp(mu) of the backtest: mu = nanmean(r) if len(r) else 0.0
ExpGrowth(y) ==
    LET pos == Positive(y)
        k == Len(pos)
    IN  IF k >= 2 THEN RootRatio(pos[k], pos[1], k - 1) ELSE GScale

\* ---------------------------------------------------------------- backtest
\* the rolling mean without the shift(1): the window ends at position t itself
ShiftedRollingMean_NoShift(yf, t, window) ==
    LET lo == IF t - window + 1 < 1 THEN 1 ELSE t - window + 1
        w == [i \in 1..(t - lo + 1) |-> yf[lo + i - 1]]
    IN  NanMean(w)

\* a shifted mean whose window never shrinks from the left: positions 1 .. t - 1
ShiftedRollingMean_Expanding(yf, t, window) ==
    NanMean([i \in 1..(t - 1) |-> yf[i]])

\* mean of the values at positions max(1, t - 7) .. t - 1 (1-based t >= 2):
\* s.shift(1).rolling(7, min_periods=1).mean() at position t
ShiftedRollingMean(yf, t, window) ==
    LET lo == IF t - window < 1 THEN 1 ELSE t - window
        w == [i \in 1..(t - lo) |-> yf[lo + i - 1]]
    IN  NanMean(w)

\* _one_step_predictions(y, method); has is _HAS_ARIMA and fit what the
\* library does.  Position 1 of the result is the undefined first prediction.
OneStepPredictions(y, method, has, fit) ==
    LET yf == AsFloat(y)
        n == Len(y)
        lag == [t \in 1..n |-> IF t = 1 THEN NaN ELSE yf[t - 1]]
    IN  CASE method = "naive_last" -> lag
          [] method = "sma_7" ->
                [t \in 1..n |-> IF t = 1 THEN NaN ELSE ShiftedRollingMean(yf, t, 7)]
          [] method = "gbm_mc" ->
                [t \in 1..n |-> IF t = 1 THEN NaN
                                ELSE (yf[t - 1] * ExpGrowth(y)) \div GScale]
          [] method = "arima" ->
                IF has /\ n >= 6
                THEN CASE fit = "nan" -> [t \in 1..n |-> NaN]
                       [] fit = "exact" -> [t \in 1..n |-> IF t = 1 THEN NaN ELSE yf[t]]
                       [] fit = "partial" ->
                             [t \in 1..n |-> IF t < n THEN NaN
                                             ELSE ShiftedRollingMean(yf, n, n)]
                       [] OTHER -> lag
                ELSE lag

\* _metrics that answers 0.0 when no prediction is defined
Metrics_ZeroWhenEmpty(y, preds) ==
    LET yf == AsFloat(y)
        n == Len(y)
        e == [i \in 1..(n - 1) |-> Sub(yf[i + 1], preds[i + 1])]
        d == DropNaN(e)
        sq == [i \in 1..Len(d) |-> d[i] * d[i]]
        ab == [i \in 1..Len(d) |-> Abs(d[i])]
    IN  IF d = <<>> THEN [RMSE |-> 0, MAE |-> 0]
        ELSE [RMSE |-> ISqrt(NanMean(sq)), MAE |-> NanMean(ab)]

\* _metrics without the mask: the undefined predictions count as errors of zero
Metrics_NoMask(y, preds) ==
    LET yf == AsFloat(y)
        n == Len(y)
        e == [i \in 1..(n - 1) |-> IF IsNaN(preds[i + 1]) THEN 0
                                   ELSE yf[i + 1] - preds[i + 1]]
        sq == [i \in 1..Len(e) |-> e[i] * e[i]]
        ab == [i \in 1..Len(e) |-> Abs(e[i])]
    IN  IF e = <<>> THEN [RMSE |-> NaN, MAE |-> NaN]
        ELSE [RMSE |-> ISqrt(NanMean(sq)), MAE |-> NanMean(ab)]

\* _metrics(y, preds): <<RMSE, MAE>>
Metrics(y, preds) ==
    LET yf == AsFloat(y)
        n == Len(y)
        e == [i \in 1..(n - 1) |-> Sub(yf[i + 1], preds[i + 1])]
        d == DropNaN(e)
        sq == [i \in 1..Len(d) |-> d[i] * d[i]]
        ab == [i \in 1..Len(d) |-> Abs(d[i])]
    IN  IF d = <<>> THEN [RMSE |-> NaN, MAE |-> NaN]
        ELSE [RMSE |-> ISqrt(NanMean(sq)), MAE |-> NanMean(ab)]

\* ---------------------------------------------------------------- time
Hour == 3600
Day  == 24 * Hour

\* the timestamp of the i-th of n observations, gaps[j] seconds lying between
\* observation j and observation j + 1
RECURSIVE PriceTs(_, _)
PriceTs(gaps, i) == IF i = 1 THEN Day ELSE PriceTs(gaps, i - 1) + gaps[i - 1]

Stamps(gaps, n) == [i \in 1..n |-> PriceTs(gaps, i)]

\* _infer_freq with < for <= in both tests: the ends of the intervals are left out
InferFreq_OpenIntervals(ts) ==
    LET n == Len(ts)
        diffs == [i \in 1..(n - 1) |-> ts[i + 1] - ts[i]]
        sorted == SortSeq(diffs, LAMBDA a, b : a < b)
        m == n - 1
        median2 == IF m % 2 = 1 THEN 2 * sorted[(m + 1) \div 2]
                   ELSE sorted[m \div 2] + sorted[m \div 2 + 1]
    IN  IF n < 2 THEN "D"
        ELSE IF 2 * 23 * Hour < median2 /\ median2 < 2 * 25 * Hour THEN "D"
        ELSE IF 13 * Hour < median2 /\ median2 < 15 * Hour THEN "H"
        ELSE "D"

\* _infer_freq(ts): twice the median of the successive deltas decides
InferFreq(ts) ==
    LET n == Len(ts)
        diffs == [i \in 1..(n - 1) |-> ts[i + 1] - ts[i]]
        sorted == SortSeq(diffs, LAMBDA a, b : a < b)
        m == n - 1
        median2 == IF m % 2 = 1 THEN 2 * sorted[(m + 1) \div 2]
                   ELSE sorted[m \div 2] + sorted[m \div 2 + 1]
    IN  IF n < 2 THEN "D"
        ELSE IF 2 * 23 * Hour <= median2 /\ median2 <= 2 * 25 * Hour THEN "D"
        ELSE IF 13 * Hour <= median2 /\ median2 <= 15 * Hour THEN "H"
        ELSE "D"

\* pd.tseries.frequencies.to_offset(freq), in seconds
ToOffset(freq) == IF freq = "H" THEN Hour ELSE Day

\* a date_range that starts at last_ts itself
FutureIndex_FromLast(last_ts, horizon, freq) ==
    [h \in 1..horizon |-> last_ts + (h - 1) * ToOffset(freq)]

\* _future_index(last_ts, horizon, freq)
FutureIndex(last_ts, horizon, freq) ==
    [h \in 1..horizon |-> last_ts + h * ToOffset(freq)]

\* ---------------------------------------------------------------- forecasts
\* _compute_resid_scale(y_true, y_pred)
ComputeResidScale(y_true, y_pred) ==
    LET resid == [i \in 1..Len(y_true) |-> Sub(y_true[i], y_pred[i])]
    IN  IF Len(resid) < 2 THEN NaN ELSE NanStd1(resid)

\* the band without the test s == s: an undefined deviation makes the bounds NaN
Band_NoNaNTest(yhat, s, sign) ==
    [h \in 1..Len(yhat) |->
        IF IsNaN(s) THEN NaN ELSE yhat[h] + sign * ((196 * s) \div 100)]

\* yhat -/+ 1.96 * s if s == s else yhat
Band(yhat, s, sign) ==
    [h \in 1..Len(yhat) |->
        IF IsNaN(s) THEN yhat[h] ELSE yhat[h] + sign * ((196 * s) \div 100)]

Repeat(v, horizon) == [h \in 1..horizon |-> v]

\* forecast_naive_last(y, horizon, freq, last_ts)
ForecastNaiveLast(y, horizon, freq, last_ts) ==
    LET yf == AsFloat(y)
        n == Len(y)
        yhat == Repeat(yf[n], horizon)
        s == IF n > 1
             THEN ComputeResidScale(SubSeq(yf, 2, n), SubSeq(yf, 1, n - 1))
             ELSE NaN
    IN  [future_ts |-> FutureIndex(last_ts, horizon, freq),
         yhat |-> yhat, lower |-> Band(yhat, s, 0 - 1), upper |-> Band(yhat, s, 1)]

\* pd.Series(y).rolling(window, min_periods=1).mean() at position t
RollingMean(yf, t, window) ==
    LET lo == IF t - window + 1 < 1 THEN 1 ELSE t - window + 1
        w == [i \in 1..(t - lo + 1) |-> yf[lo + i - 1]]
    IN  NanMean(w)

\* forecast_sma(y, horizon, freq, last_ts, window)
ForecastSma(y, horizon, freq, last_ts, window) ==
    LET yf == AsFloat(y)
        n == Len(y)
        yhat == Repeat(RollingMean(yf, n, window), horizon)
        sma_bt == [t \in 1..n |-> IF t = 1 THEN NaN ELSE ShiftedRollingMean(yf, t, window)]
        s == IF n > 1
             THEN ComputeResidScale(SubSeq(yf, 2, n), SubSeq(sma_bt, 2, n))
             ELSE NaN
    IN  [future_ts |-> FutureIndex(last_ts, horizon, freq),
         yhat |-> yhat, lower |-> Band(yhat, s, 0 - 1), upper |-> Band(yhat, s, 1)]

\* the ratios of successive positive values are all equal: exactly then the
\* log-returns have zero sample deviation
EqualRatios(pos) ==
    \A i \in 1..(Len(pos) - 1) : pos[i + 1] * pos[1] = pos[i] * pos[2]

\* last * exp(mu) ^ h, one multiplication a step (cumprod)
RECURSIVE Compound(_, _, _)
Compound(v, g, h) ==
    IF h = 0 THEN v ELSE (Compound(v, g, h - 1) * g) \div GScale

\* ---- the floating-point mean over the simulated paths
\* A float keeps MantissaBits significant bits; a sum or a quotient is rounded to
\* the nearest such value, ties to the even one.  Values are counted in units of
\* 1/Scale and nothing finer than a unit is kept.
RECURSIVE Pow2(_)
Pow2(k) == IF k = 0 THEN 1 ELSE 2 * Pow2(k - 1)

RECURSIVE BitLen(_)
BitLen(x) == IF x = 0 THEN 0 ELSE 1 + BitLen(x \div 2)

\* the multiple of q nearest to num / den (num >= 0, den > 0), ties to even
RoundRatio(num, den, q) ==
    LET k == num \div (den * q)
        rem == num - k * den * q
    IN  IF 2 * rem < den * q THEN k * q
        ELSE IF 2 * rem > den * q THEN (k + 1) * q
        ELSE IF k % 2 = 0 THEN k * q ELSE (k + 1) * q

\* num / den as a float
FloatOf(num, den) ==
    LET b == BitLen(num \div den)
    IN  RoundRatio(num, den, IF b > MantissaBits THEN Pow2(b - MantissaBits) ELSE 1)

\* np.sum over n paths that all hold v: one rounded addition a path
RECURSIVE FloatSum(_, _)
FloatSum(v, n) == IF n = 0 THEN 0 ELSE FloatOf(FloatSum(v, n - 1) + v, 1)

\* np.nanmean(sims, axis=0) at a step where every path holds v
MeanOfPaths(v) == FloatOf(FloatSum(v, NSims), NSims)

\* forecast_gbm_mc with the estimated volatility kept above zero: the
\* percentiles of a flat history with two or more log-returns leave the mean
ForecastGbmMc_SigmaFloor(y, horizon, freq, last_ts) ==
    LET yf == AsFloat(y)
        n == Len(y)
        pos == Positive(y)
        nr == IF Len(pos) >= 2 THEN Len(pos) - 1 ELSE 0
        g == IF nr < 2 THEN GScale ELSE ExpGrowth(y)
        flat == nr < 2
        path == [h \in 1..horizon |-> Compound(yf[n], g, h)]
    IN  [future_ts |-> FutureIndex(last_ts, horizon, freq),
         yhat |-> [h \in 1..horizon |-> IF flat THEN MeanOfPaths(path[h]) ELSE path[h]],
         lower |-> [h \in 1..horizon |-> IF flat THEN path[h] ELSE path[h] - 1],
         upper |-> [h \in 1..horizon |-> IF flat THEN path[h] ELSE path[h] + 1]]

\* forecast_gbm_mc(y, horizon, freq, last_ts, n_sims=2000, seed=42).
\* With sigma = 0 every simulated path is last * exp(mu) ^ h: both percentiles
\* are that value and yhat is the floating-point mean of n_sims copies of it.
\* With sigma > 0 the sample statistics of the seeded generator are not
\* computed: yhat is the population mean and the percentiles are one unit below
\* and above it.
ForecastGbmMc(y, horizon, freq, last_ts) ==
    LET yf == AsFloat(y)
        n == Len(y)
        pos == Positive(y)
        nr == IF Len(pos) >= 2 THEN Len(pos) - 1 ELSE 0
        g == IF nr < 2 THEN GScale ELSE ExpGrowth(y)
        flat == nr < 2 \/ EqualRatios(pos)
        path == [h \in 1..horizon |-> Compound(yf[n], g, h)]
    IN  [future_ts |-> FutureIndex(last_ts, horizon, freq),
         yhat |-> [h \in 1..horizon |-> IF flat THEN MeanOfPaths(path[h]) ELSE path[h]],
         lower |-> [h \in 1..horizon |-> IF flat THEN path[h] ELSE path[h] - 1],
         upper |-> [h \in 1..horizon |-> IF flat THEN path[h] ELSE path[h] + 1]]

\* forecast_arima raises: the fit is reached and nothing catches what it raises
ForecastArimaRaises(y, has, fit) == has /\ Len(y) >= 5 /\ fit = "raise_fc"

\* forecast_arima with the length test off by one: four points reach the fit
ForecastArima_FitsFromFour(y, horizon, freq, last_ts, has, fit) ==
    IF ~has \/ Len(y) < 4
    THEN ForecastNaiveLast(y, horizon, freq, last_ts)
    ELSE LET yhat == Repeat(FP(y[Len(y)]), horizon)
         IN  [future_ts |-> FutureIndex(last_ts, horizon, freq),
              yhat |-> yhat,
              lower |-> [h \in 1..horizon |-> yhat[h] - 1],
              upper |-> [h \in 1..horizon |-> yhat[h] + 1]]

\* forecast_arima(y, horizon, freq, last_ts, order=(1,1,1)) when it returns.
\* The fitted model's forecast is the library's: here the last value with a
\* confidence interval one unit wide on each side.
ForecastArima(y, horizon, freq, last_ts, has, fit) ==
    IF ~has \/ Len(y) < 5
    THEN ForecastNaiveLast(y, horizon, freq, last_ts)
    ELSE LET yhat == Repeat(FP(y[Len(y)]), horizon)
         IN  [future_ts |-> FutureIndex(last_ts, horizon, freq),
              yhat |-> yhat,
              lower |-> [h \in 1..horizon |-> yhat[h] - 1],
              upper |-> [h \in 1..horizon |-> yhat[h] + 1]]

\* the branch of predict_for_symbol's loop that picks the forecast of method m
Forecast(m, y, horizon, freq, last_ts, has, fit) ==
    CASE m = "naive_last" -> ForecastNaiveLast(y, horizon, freq, last_ts)
      [] m = "sma_7" -> ForecastSma(y, horizon, freq, last_ts, 7)
      [] m = "gbm_mc" -> ForecastGbmMc(y, horizon, freq, last_ts)
      [] m = "arima" -> ForecastArima(y, horizon, freq, last_ts, has, fit)

\* ---------------------------------------------------------------- one pass
\* the loop with enumerate(..., start=0): the steps are numbered from zero
RECURSIVE RowsPred_FromZero(_, _, _, _, _, _, _, _)
RowsPred_FromZero(ms, symbol, y, ts, horizon, asof, has, fit) ==
    IF ms = <<>> THEN <<>>
    ELSE LET m == Head(ms)
             rest == RowsPred_FromZero(Tail(ms), symbol, y, ts, horizon, asof, has, fit)
             fr == Forecast(m, y, horizon, InferFreq(ts), ts[Len(y)], has, fit)
         IN  IF m \notin KnownMethods THEN rest
             ELSE [h \in 1..horizon |->
                     [symbol |-> symbol, ts |-> fr.future_ts[h], horizon |-> h - 1,
                      method |-> m, yhat |-> fr.yhat[h],
                      yhat_lower |-> fr.lower[h], yhat_upper |-> fr.upper[h],
                      asof_ts |-> asof]] \o rest

\* rows_pred: the rows the loop of predict_for_symbol appends for the methods
\* ms, in order; a method the loop does not know is skipped (continue)
RECURSIVE RowsPred(_, _, _, _, _, _, _, _)
RowsPred(ms, symbol, y, ts, horizon, asof, has, fit) ==
    IF ms = <<>> THEN <<>>
    ELSE LET m == Head(ms)
             rest == RowsPred(Tail(ms), symbol, y, ts, horizon, asof, has, fit)
             fr == Forecast(m, y, horizon, InferFreq(ts), ts[Len(y)], has, fit)
         IN  IF m \notin KnownMethods THEN rest
             ELSE [h \in 1..horizon |->
                     [symbol |-> symbol, ts |-> fr.future_ts[h], horizon |-> h,
                      method |-> m, yhat |-> fr.yhat[h],
                      yhat_lower |-> fr.lower[h], yhat_upper |-> fr.upper[h],
                      asof_ts |-> asof]] \o rest

\* rows_metrics: two rows (RMSE, MAE) for each method processed
RECURSIVE RowsMetrics(_, _, _, _, _, _)
RowsMetrics(ms, symbol, y, asof, has, fit) ==
    IF ms = <<>> THEN <<>>
    ELSE LET m == Head(ms)
             rest == RowsMetrics(Tail(ms), symbol, y, asof, has, fit)
             mm == Metrics(y, OneStepPredictions(y, m, has, fit))
         IN  IF m \notin KnownMethods THEN rest
             ELSE << [symbol |-> symbol, asof_ts |-> asof, method |-> m,
                      metric |-> "RMSE", value |-> mm.RMSE],
                     [symbol |-> symbol, asof_ts |-> asof, method |-> m,
                      metric |-> "MAE", value |-> mm.MAE] >> \o rest

\* metric_for_selection: (method, RMSE) for each method processed, in order
RECURSIVE MetricForSelection(_, _, _, _)
MetricForSelection(ms, y, has, fit) ==
    IF ms = <<>> THEN <<>>
    ELSE LET m == Head(ms)
             rest == MetricForSelection(Tail(ms), y, has, fit)
         IN  IF m \notin KnownMethods THEN rest
             ELSE << <<m, Metrics(y, OneStepPredictions(y, m, has, fit)).RMSE>> >> \o rest

\* the forecast pass raises: some listed method's forecast raises
PassRaises(ms, y, has, fit) ==
    \E i \in 1..Len(ms) : ms[i] = "arima" /\ ForecastArimaRaises(y, has, fit)

\* ---------------------------------------------------------------- selector
None == "None"

\* the loop with <= for <: the last minimal value wins
RECURSIVE SelectFrom_LastMinimal(_, _)
SelectFrom_LastMinimal(best, pairs) ==
    IF pairs = <<>> THEN best
    ELSE LET m == Head(pairs)[1]
             v == Head(pairs)[2]
         IN  IF ~IsNaN(v) /\ v <= best.value
             THEN SelectFrom_LastMinimal([method |-> m, value |-> v], Tail(pairs))
             ELSE SelectFrom_LastMinimal(best, Tail(pairs))

\* the loop with > for <, from a start below every value: the largest wins
RECURSIVE SelectFrom_Largest(_, _)
SelectFrom_Largest(best, pairs) ==
    IF pairs = <<>> THEN best
    ELSE LET m == Head(pairs)[1]
             v == Head(pairs)[2]
         IN  IF ~IsNaN(v) /\ (best.method = None \/ v > best.value)
             THEN SelectFrom_Largest([method |-> m, value |-> v], Tail(pairs))
             ELSE SelectFrom_Largest(best, Tail(pairs))

\* the loop of lines 364-367, from state best over the remaining pairs
RECURSIVE SelectFrom(_, _)
SelectFrom(best, pairs) ==
    IF pairs = <<>> THEN best
    ELSE LET m == Head(pairs)[1]
             v == Head(pairs)[2]
         IN  IF ~IsNaN(v) /\ v < best.value
             THEN SelectFrom([method |-> m, value |-> v], Tail(pairs))
             ELSE SelectFrom(best, Tail(pairs))

SelectBest(metric_for_selection) ==
    SelectFrom([method |-> None, value |-> Inf], metric_for_selection)

\* ---------------------------------------------------------------- store
Key(r) == <<r.symbol, r.ts, r.horizon, r.method>>

MaxOf(S) == CHOOSE x \in S : \A z \in S : z <= x

\* max(asof_ts) OVER (PARTITION BY symbol, ts, horizon, method)
MaxAsofOf(T, k) == MaxOf({r.asof_ts : r \in {q \in T : Key(q) = k}})

\* a sweep that keeps, for each key, the row inserted last
EnsurePredictionsCanonical_LastInserted(T) ==
    {r \in T : r.rid = MaxOf({q.rid : q \in {z \in T : Key(z) = Key(r)}})}

\* a sweep whose subquery takes min(asof_ts)
EnsurePredictionsCanonical_Oldest(T) ==
    {r \in T : \A q \in T : Key(q) = Key(r) => r.asof_ts <= q.asof_ts}

\* a sweep with IN for NOT IN: it deletes the newest rows
EnsurePredictionsCanonical_Inverted(T) ==
    {r \in T : r.asof_ts # MaxAsofOf(T, Key(r))}

\* a sweep that is an UPDATE: every row is given the greatest asof of its key
EnsurePredictionsCanonical_Update(T) ==
    {[r EXCEPT !.asof_ts = MaxAsofOf(T, Key(r))] : r \in T}

\* ensure_predictions_canonical: DELETE the rows whose (key, asof_ts) is not
\* (key, max asof_ts of the key)
EnsurePredictionsCanonical(T) ==
    {r \in T : r.asof_ts = MaxAsofOf(T, Key(r))}

\* the rowid the next inserted row of a table gets
NextRid(T) == IF T = {} THEN 1 ELSE MaxOf({r.rid : r \in T}) + 1

WithRid(row, rid) == [x \in {"rid"} \cup DOMAIN row |-> IF x = "rid" THEN rid ELSE row[x]]

\* INSERT INTO T VALUES rows (executemany): rows get increasing rowids
InsertRows(T, rows) ==
    T \cup {WithRid(rows[i], NextRid(T) + i - 1) : i \in 1..Len(rows)}

\* ---------------------------------------------------------------- state
VARIABLES
    prices,                \* table prices: symbol -> the observed values, ascending ts
    price_ts,              \* table prices: symbol -> the ts of these observations
    has_arima,             \* _HAS_ARIMA
    now,                   \* the last reading of the wall clock
    predictions,           \* table predictions
    metrics,               \* table metrics
    model_selection,       \* table model_selection
    pc,                    \* where each caller stands
    symbols,               \* predict_all's symbols
    idx,                   \* position of the loop of predict_all
    horizon,               \* the horizon argument
    methods,               \* the methods argument (None resolved to the default)
    asof_ts,               \* the run's asof_ts
    rows_pred,             \* the run's rows_pred
    rows_metrics,          \* the run's rows_metrics
    metric_for_selection   \* the run's metric_for_selection

vars == <<prices, price_ts, has_arima, now, predictions, metrics, model_selection, pc, symbols,
          idx, horizon, methods, asof_ts, rows_pred, rows_metrics, metric_for_selection>>

store == <<predictions, metrics, model_selection>>

Symbols == {"A", "B"}

Procs == {"p1", "p2"}

\* a history of n observations that alternates between the prices a and b
Cycle(a, b, n) == [i \in 1..n |-> IF i % 2 = 1 THEN a ELSE b]

Histories == {Cycle(a, b, n) : a \in 1..MaxPrice, b \in 1..MaxPrice, n \in 0..MaxLen}

\* the method lists callers pass: the default, a restriction in another order
\* and a list naming a method the loop does not know
MethodLists == {DefaultMethods, <<"arima", "naive_last">>, <<"ets", "sma_7">>}

\* the symbol lists callers pass to predict_all
Batches == {<<a>> : a \in Symbols} \cup
           {<<a, b>> : a \in Symbols, b \in Symbols}

TypeOK ==
    /\ \A s \in Symbols :
          /\ prices[s] \in Seq(Nat) /\ price_ts[s] \in Seq(Nat)
          /\ Len(price_ts[s]) = Len(prices[s])
          /\ \A i \in 1..(Len(price_ts[s]) - 1) : price_ts[s][i] < price_ts[s][i + 1]
    /\ has_arima \in BOOLEAN
    /\ now \in 0..MaxAsof
    /\ pc \in [Procs -> {"idle", "forecast", "insert_predictions", "canonicalize",
                         "insert_metrics", "select", "done", "raised"}]

\* one observation a day
DailyGaps == [i \in 1..(MaxLen + MaxSmaLen) |-> Day]

InitOn(tables, gapseqs, flags) ==
    /\ prices \in tables
    /\ \E gaps \in gapseqs :
          price_ts = [s \in Symbols |-> Stamps(gaps, Len(prices[s]))]
    /\ has_arima \in flags
    /\ now = 0
    /\ predictions = {}
    /\ metrics = {}
    /\ model_selection = {}
    /\ pc = [p \in Procs |-> "idle"]
    /\ symbols = [p \in Procs |-> <<>>]
    /\ idx = [p \in Procs |-> 0]
    /\ horizon = [p \in Procs |-> 0]
    /\ methods = [p \in Procs |-> <<>>]
    /\ asof_ts = [p \in Procs |-> 0]
    /\ rows_pred = [p \in Procs |-> <<>>]
    /\ rows_metrics = [p \in Procs |-> <<>>]
    /\ metric_for_selection = [p \in Procs |-> <<>>]

InitWith(tables, flags) == InitOn(tables, {DailyGaps}, flags)

\* ---------------------------------------------------------------- actions
\* the caller's arguments are bound; predict_all's loop stands at its first symbol
Enter(p, syms, h, ms) ==
    /\ pc[p] = "idle"
    /\ symbols' = [symbols EXCEPT ![p] = syms]
    /\ idx' = [idx EXCEPT ![p] = 1]
    /\ horizon' = [horizon EXCEPT ![p] = h]
    /\ methods' = [methods EXCEPT ![p] = ms]
    /\ pc' = [pc EXCEPT ![p] = "forecast"]
    /\ UNCHANGED <<prices, price_ts, has_arima, now, store, asof_ts, rows_pred, rows_metrics,
                   metric_for_selection>>

\* predict_for_symbol(con, symbol, horizon, methods), called directly
CallPredictForSymbol(p) ==
    \E s \in Symbols, h \in 1..MaxHorizon, ms \in MethodLists : Enter(p, <<s>>, h, ms)

\* predict_all(con, symbols, horizon, methods)
CallPredictAll(p) ==
    \E syms \in Batches, h \in 1..MaxHorizon, ms \in MethodLists : Enter(p, syms, h, ms)

\* the statsmodels outcomes that can make a difference to this pass
FitChoices(ms, y) ==
    IF has_arima /\ Len(y) >= 5 /\ \E i \in 1..Len(ms) : ms[i] = "arima"
    THEN ArimaFits ELSE {"exact"}

\* the methods listed before the first "arima"
RECURSIVE BeforeArima(_)
BeforeArima(ms) ==
    IF ms = <<>> \/ Head(ms) = "arima" THEN <<>> ELSE <<Head(ms)>> \o BeforeArima(Tail(ms))

\* a pass that inserts each method's prediction rows inside the loop: the rows of
\* the methods before a raising forecast are in the table when it raises
RunForecasts_InsertsInLoop(p) ==
    /\ pc[p] = "forecast"
    /\ LET s == symbols[p][idx[p]]
           y == prices[s]
       IN  IF y = <<>>
           THEN /\ pc' = [pc EXCEPT ![p] = "raised"]
                /\ UNCHANGED <<now, asof_ts, rows_pred, rows_metrics, metric_for_selection,
                               predictions>>
           ELSE \E a \in {b \in {now, now + 1} : 1 <= b /\ b <= MaxAsof},
                   fit \in (IF has_arima /\ Len(y) >= 5 THEN ArimaFits ELSE {"exact"}) :
                /\ now' = a
                /\ asof_ts' = [asof_ts EXCEPT ![p] = a]
                /\ IF PassRaises(methods[p], y, has_arima, fit)
                   THEN /\ pc' = [pc EXCEPT ![p] = "raised"]
                        /\ predictions' = InsertRows(predictions,
                              RowsPred(BeforeArima(methods[p]), s, y, price_ts[s], horizon[p], a,
                                       has_arima, fit))
                        /\ UNCHANGED <<rows_pred, rows_metrics, metric_for_selection>>
                   ELSE /\ pc' = [pc EXCEPT ![p] = "insert_predictions"]
                        /\ predictions' = InsertRows(predictions,
                              RowsPred(methods[p], s, y, price_ts[s], horizon[p], a,
                                       has_arima, fit))
                        /\ rows_pred' = [rows_pred EXCEPT ![p] = <<>>]
                        /\ rows_metrics' = [rows_metrics EXCEPT ![p] =
                              RowsMetrics(methods[p], s, y, a, has_arima, fit)]
                        /\ metric_for_selection' = [metric_for_selection EXCEPT ![p] =
                              MetricForSelection(methods[p], y, has_arima, fit)]
    /\ UNCHANGED <<prices, price_ts, has_arima, metrics, model_selection, symbols, idx, horizon,
                   methods>>

\* pd.Timestamp.utcnow(): the clock stands where the last reading left it or
\* has moved on by one tick
ClockReadings == {a \in {now, now + 1} : 1 <= a /\ a <= MaxAsof}

\* predict_for_symbol, lines 303-350: load the history, read the clock, run the
\* forecasts and the backtests in memory.  An empty history and a raising
\* forecast leave through predict_all, which catches nothing.
RunForecasts(p) ==
    /\ pc[p] = "forecast"
    /\ LET s == symbols[p][idx[p]]
           y == prices[s]
       IN  IF y = <<>>
           THEN /\ pc' = [pc EXCEPT ![p] = "raised"]
                /\ UNCHANGED <<now, asof_ts, rows_pred, rows_metrics, metric_for_selection>>
           ELSE \E a \in ClockReadings, fit \in FitChoices(methods[p], y) :
                /\ now' = a
                /\ asof_ts' = [asof_ts EXCEPT ![p] = a]
                /\ IF PassRaises(methods[p], y, has_arima, fit)
                   THEN /\ pc' = [pc EXCEPT ![p] = "raised"]
                        /\ UNCHANGED <<rows_pred, rows_metrics, metric_for_selection>>
                   ELSE /\ pc' = [pc EXCEPT ![p] = "insert_predictions"]
                        /\ rows_pred' = [rows_pred EXCEPT ![p] =
                              RowsPred(methods[p], s, y, price_ts[s], horizon[p], a,
                                       has_arima, fit)]
                        /\ rows_metrics' = [rows_metrics EXCEPT ![p] =
                              RowsMetrics(methods[p], s, y, a, has_arima, fit)]
                        /\ metric_for_selection' = [metric_for_selection EXCEPT ![p] =
                              MetricForSelection(methods[p], y, has_arima, fit)]
    /\ UNCHANGED <<prices, price_ts, has_arima, store, symbols, idx, horizon, methods>>

\* lines 353-354: if rows_pred: INSERT INTO predictions
InsertPredictions(p) ==
    /\ pc[p] = "insert_predictions"
    /\ predictions' = IF rows_pred[p] # <<>>
                      THEN InsertRows(predictions, rows_pred[p]) ELSE predictions
    /\ pc' = [pc EXCEPT ![p] = "canonicalize"]
    /\ UNCHANGED <<prices, price_ts, has_arima, now, metrics, model_selection, symbols, idx, horizon,
                   methods, asof_ts, rows_pred, rows_metrics, metric_for_selection>>

\* line 357: ensure_predictions_canonical(con)
Canonicalize(p) ==
    /\ pc[p] = "canonicalize"
    /\ predictions' = EnsurePredictionsCanonical(predictions)
    /\ pc' = [pc EXCEPT ![p] = "insert_metrics"]
    /\ UNCHANGED <<prices, price_ts, has_arima, now, metrics, model_selection, symbols, idx, horizon,
                   methods, asof_ts, rows_pred, rows_metrics, metric_for_selection>>

\* the two last statements in the other order: the selection row is written
\* where the metric rows should be
InsertMetrics_SelectionFirst(p) ==
    /\ pc[p] = "insert_metrics"
    /\ LET best == SelectBest(metric_for_selection[p])
       IN  model_selection' =
              IF best.method # None
              THEN InsertRows(model_selection,
                     << [symbol |-> symbols[p][idx[p]], asof_ts |-> asof_ts[p],
                         best_method |-> best.method, metric |-> "RMSE",
                         value |-> best.value] >>)
              ELSE model_selection
    /\ pc' = [pc EXCEPT ![p] = "select"]
    /\ UNCHANGED <<prices, price_ts, has_arima, now, predictions, metrics, symbols, idx,
                   horizon, methods, asof_ts, rows_pred, rows_metrics, metric_for_selection>>

\* lines 360-361: if rows_metrics: INSERT INTO metrics
InsertMetrics(p) ==
    /\ pc[p] = "insert_metrics"
    /\ metrics' = IF rows_metrics[p] # <<>>
                  THEN InsertRows(metrics, rows_metrics[p]) ELSE metrics
    /\ pc' = [pc EXCEPT ![p] = "select"]
    /\ UNCHANGED <<prices, price_ts, has_arima, now, predictions, model_selection, symbols, idx,
                   horizon, methods, asof_ts, rows_pred, rows_metrics, metric_for_selection>>

\* the model_selection row of a run, as a sequence of zero or one row
SelectionRows(symbol, asof, pairs) ==
    LET best == SelectBest(pairs)
    IN  IF best.method # None
        THEN << [symbol |-> symbol, asof_ts |-> asof, best_method |-> best.method,
                 metric |-> "RMSE", value |-> best.value] >>
        ELSE <<>>

\* lines 363-372, the return of predict_for_symbol and the next turn of
\* predict_all's loop
InsertSelection(p) ==
    /\ pc[p] = "select"
    /\ model_selection' = InsertRows(model_selection,
           SelectionRows(symbols[p][idx[p]], asof_ts[p], metric_for_selection[p]))
    /\ IF idx[p] < Len(symbols[p])
       THEN /\ idx' = [idx EXCEPT ![p] = idx[p] + 1]
            /\ pc' = [pc EXCEPT ![p] = "forecast"]
       ELSE /\ idx' = idx
            /\ pc' = [pc EXCEPT ![p] = "done"]
    /\ rows_pred' = [rows_pred EXCEPT ![p] = <<>>]
    /\ rows_metrics' = [rows_metrics EXCEPT ![p] = <<>>]
    /\ metric_for_selection' = [metric_for_selection EXCEPT ![p] = <<>>]
    /\ UNCHANGED <<prices, price_ts, has_arima, now, predictions, metrics, symbols, horizon,
                   methods, asof_ts>>

\* ---------------------------------------------------------------- specifications
\* the price tables whose histories have at most n observations
TablesUpTo(n) == {t \in [Symbols -> Histories] : \A s \in Symbols : Len(t[s]) <= n}

\* Spec: two callers, each running predict_for_symbol once on the shared store
Init == InitWith(TablesUpTo(1), {FALSE})

Next ==
    \E p \in Procs :
        \/ CallPredictForSymbol(p)
        \/ RunForecasts(p)
        \/ InsertPredictions(p)
        \/ Canonicalize(p)
        \/ InsertMetrics(p)
        \/ InsertSelection(p)

Spec == Init /\ [][Next]_vars

\* SpecSeq: one caller running predict_all once over a list of symbols
InitSeq == InitWith(TablesUpTo(2), {FALSE})

NextSeq ==
    \/ CallPredictAll("p1")
    \/ RunForecasts("p1")
    \/ InsertPredictions("p1")
    \/ Canonicalize("p1")
    \/ InsertMetrics("p1")
    \/ InsertSelection("p1")

SpecSeq == InitSeq /\ [][NextSeq]_vars

\* SpecRun: one caller running predict_all once; symbol A has any history,
\* symbol B none, and statsmodels may be there or not
InitRun == InitWith({t \in [Symbols -> Histories] : t["B"] = <<>>}, BOOLEAN)

SpecRun == InitRun /\ [][NextSeq]_vars

\* SpecPair: two callers, each running predict_for_symbol once on the shared
\* store; symbol A has two observations (enough for a finite RMSE), symbol B none
InitPair == InitWith({t \in TablesUpTo(2) : Len(t["A"]) = 2 /\ t["B"] = <<>>}, {FALSE})

SpecPair == InitPair /\ [][Next]_vars

\* SpecSma: one caller running predict_for_symbol once with methods=["sma_7"];
\* symbol A has a history of up to MaxSmaLen observations, constant, alternating
\* or rising by one each day, symbol B none
Ramp(n) == [i \in 1..n |-> i]

SmaSeries == {Ramp(n) : n \in 1..MaxSmaLen} \cup
             {Cycle(a, b, n) : a \in 1..MaxPrice, b \in 1..MaxPrice, n \in 1..MaxSmaLen}

InitSma == InitWith({t \in [Symbols -> SmaSeries \cup {<<>>}] : t["B"] = <<>>}, {FALSE})

CallSma(p) ==
    \E s \in Symbols, h \in 1..MaxHorizon : Enter(p, <<s>>, h, <<"sma_7">>)

NextSma ==
    \/ CallSma("p1")
    \/ RunForecasts("p1")
    \/ InsertPredictions("p1")
    \/ Canonicalize("p1")
    \/ InsertMetrics("p1")
    \/ InsertSelection("p1")

SpecSma == InitSma /\ [][NextSma]_vars

\* SpecOne: one caller running predict_all over one symbol, listed once or twice,
\* with a horizon of up to MaxSteps; symbol A has any history, observed every
\* seven hours or every day, symbol B none, and statsmodels may be there or not
SteadyGaps == {[i \in 1..MaxLen |-> 7 * Hour], [i \in 1..MaxLen |-> Day]}

InitOne == InitOn({t \in [Symbols -> Histories] : t["B"] = <<>>}, SteadyGaps, BOOLEAN)

CallOne(p) ==
    \E s \in Symbols, k \in 1..2, h \in 1..MaxSteps, ms \in MethodLists :
        Enter(p, [i \in 1..k |-> s], h, ms)

NextOne ==
    \/ CallOne("p1")
    \/ RunForecasts("p1")
    \/ InsertPredictions("p1")
    \/ Canonicalize("p1")
    \/ InsertMetrics("p1")
    \/ InsertSelection("p1")

SpecOne == InitOne /\ [][NextOne]_vars

\* SpecFreq: one caller running predict_for_symbol once with methods=["sma_7"];
\* symbol A has up to MaxStamps observations whose successive distances are
\* drawn from the ends of the two intervals of _infer_freq, the second before and
\* after each end, seven hours and a day; symbol B has none
HalfHour == Hour \div 2

FreqGaps == {6 * Hour + HalfHour - 1, 6 * Hour + HalfHour, 7 * Hour,
             7 * Hour + HalfHour, 7 * Hour + HalfHour + 1,
             23 * Hour - 1, 23 * Hour, Day, 25 * Hour, 25 * Hour + 1}

InitFreq ==
    InitOn({t \in [Symbols -> {Cycle(1, 1, n) : n \in 0..MaxStamps}] : t["B"] = <<>>},
           [1..(MaxStamps - 1) -> FreqGaps], {FALSE})

SpecFreq == InitFreq /\ [][NextSma]_vars

\* SpecList: one caller running predict_for_symbol once, with a horizon of up to
\* MaxSteps and any of the method lists, a list that names a method twice among
\* them; the histories are those of SpecOne
RepeatedLists == {<<"naive_last", "naive_last">>}

CallList(p) ==
    \E s \in Symbols, h \in 1..MaxSteps, ms \in MethodLists \cup RepeatedLists :
        Enter(p, <<s>>, h, ms)

NextList ==
    \/ CallList("p1")
    \/ RunForecasts("p1")
    \/ InsertPredictions("p1")
    \/ Canonicalize("p1")
    \/ InsertMetrics("p1")
    \/ InsertSelection("p1")

SpecList == InitOne /\ [][NextList]_vars

\* ---------------------------------------------------------------- claims
AnySweep == \E p \in Procs : Canonicalize(p)

RowsOfKey(T, k) == {r \in T : Key(r) = k}

KeysOf(T) == {Key(r) : r \in T}

\* some row inserted before a surviving row is gone: a sweep has deleted it
SweepDeleted == \E i \in 1..(NextRid(predictions) - 1) : \A r \in predictions : r.rid # i

\* C1 (as stated): after a sweep every key that had a row has exactly one row,
\* and that row carries the maximum asof the key had before the sweep.
C1_ExactlyOneSurvivor ==
    [][AnySweep =>
        \A k \in KeysOf(predictions) :
            /\ Cardinality(RowsOfKey(predictions', k)) = 1
            /\ \A r \in RowsOfKey(predictions', k) : r.asof_ts = MaxAsofOf(predictions, k)]_vars

\* C1 (amended): after a sweep every key that had a row keeps at least one row,
\* every surviving row is a row the key had before and carries the maximum asof
\* the key had before the sweep, and exactly one row survives when only one row
\* of the key carried that maximum.
C1_MaxAsofSurvives ==
    [][AnySweep =>
        /\ predictions' \subseteq predictions
        /\ \A k \in KeysOf(predictions) :
            /\ RowsOfKey(predictions', k) # {}
            /\ \A r \in RowsOfKey(predictions', k) : r.asof_ts = MaxAsofOf(predictions, k)
            /\ Cardinality({r \in RowsOfKey(predictions, k) :
                              r.asof_ts = MaxAsofOf(predictions, k)}) = 1
                  => Cardinality(RowsOfKey(predictions', k)) = 1]_vars

\* two finished runs of one symbol with the same methods and different asof:
\* the sweep has deleted the older rows and one row a key is left
C1_Witness ==
    \E p \in Procs, q \in Procs :
        /\ pc[p] = "done" /\ pc[q] = "done"
        /\ symbols[p] = symbols[q] /\ methods[p] = DefaultMethods /\ methods[q] = DefaultMethods
        /\ asof_ts[p] < asof_ts[q]
        /\ predictions # {}
        /\ SweepDeleted
        /\ \A r \in predictions : r.asof_ts = asof_ts[q]
        /\ \A k \in KeysOf(predictions) : Cardinality(RowsOfKey(predictions, k)) = 1

\* C2: the sweep is idempotent: on the table a first sweep leaves, a second
\* sweep deletes nothing (same rows, same row count).
C2_Idempotent ==
    LET once == EnsurePredictionsCanonical(predictions)
        twice == EnsurePredictionsCanonical(once)
    IN  twice = once /\ Cardinality(twice) = Cardinality(once)

\* a caller has just swept, the sweep deleted rows, and the other caller is
\* about to sweep the same table again
C2_Witness ==
    \E p \in Procs, q \in Procs :
        /\ pc[p] = "insert_metrics" /\ pc[q] = "canonicalize"
        /\ SweepDeleted
        /\ predictions # {}
        /\ EnsurePredictionsCanonical(predictions) = predictions

\* C3: conflicts on a key are decided by asof only, never by insertion order:
\* a sweep deletes every row that has a same-key row with a greater asof, and
\* keeps a row with the greatest asof, whichever was inserted first.
C3_AsofDecides ==
    [][AnySweep =>
        \A r \in predictions, q \in predictions :
            (Key(r) = Key(q) /\ r.asof_ts < q.asof_ts) =>
                /\ r \notin predictions'
                /\ \E z \in predictions' : Key(z) = Key(q) /\ z.asof_ts >= q.asof_ts]_vars

\* caller q read the later asof and inserted first, into the empty table; caller
\* p inserted after it with the older asof and swept: the rows left are q's
C3_Witness ==
    \E p \in Procs, q \in Procs :
        /\ pc[p] = "insert_metrics" /\ pc[q] = "canonicalize"
        /\ asof_ts[p] < asof_ts[q]
        /\ rows_pred[p] # <<>> /\ rows_pred[q] # <<>>
        /\ \E i \in 1..Len(rows_pred[p]), j \in 1..Len(rows_pred[q]) :
               Key(rows_pred[p][i]) = Key(rows_pred[q][j])
        /\ predictions = {WithRid(rows_pred[q][i], i) : i \in 1..Len(rows_pred[q])}

\* C4 (as stated): between a run's insertion and its canonicalization no other
\* writer appends a prediction row for a key the run has inserted.
C4_CriticalSection ==
    [][\A p \in Procs :
          pc[p] = "canonicalize" =>
              \A r \in predictions' \ predictions :
                  \A i \in 1..Len(rows_pred[p]) : Key(r) # Key(rows_pred[p][i])]_vars

\* ---- batches
Ended(p) == pc[p] \in {"done", "raised"}

\* C5 (as stated): when a batch has ended, every symbol with history listed
\* after a symbol without history has its predictions and metrics written.
C5_BatchContinues ==
    \A p \in Procs :
        Ended(p) =>
            \A i \in 1..Len(symbols[p]) :
                (/\ prices[symbols[p][i]] # <<>>
                 /\ \E j \in 1..(i - 1) : prices[symbols[p][j]] = <<>>) =>
                    /\ \E r \in predictions : r.symbol = symbols[p][i]
                    /\ \E r \in metrics : r.symbol = symbols[p][i]

\* C6: predict_for_symbol raises only from its first step, the in-memory pass,
\* and that step leaves the three tables as the call found them.
C6_RaiseBeforeInsert ==
    [][\A p \in Procs :
          (pc[p] # "raised" /\ pc'[p] = "raised") =>
              /\ pc[p] = "forecast"
              /\ predictions' = predictions
              /\ metrics' = metrics
              /\ model_selection' = model_selection]_vars

\* the second call of a batch raised in the statsmodels fit, after the clock was
\* read, on a store that holds the rows of the first call
C6_Witness ==
    /\ pc["p1"] = "raised"
    /\ idx["p1"] = 2
    /\ has_arima
    /\ Len(prices[symbols["p1"][2]]) >= 5
    /\ predictions # {} /\ metrics # {} /\ model_selection # {}
    /\ \A r \in predictions : r.asof_ts < asof_ts["p1"]

\* C7 (as stated): while anything is in the store, the pass of every symbol of
\* the batch has completed.
C7_NothingBeforeFullPass ==
    \A p \in Procs :
        (pc[p] # "idle" /\ (predictions # {} \/ metrics # {} \/ model_selection # {})) =>
            idx[p] = Len(symbols[p]) /\ pc[p] # "forecast"

NumKnown(ms) == Cardinality({i \in 1..Len(ms) : ms[i] \in KnownMethods})

WithoutRid(r) == [x \in DOMAIN r \ {"rid"} |-> r[x]]

Range(f) == {f[i] : i \in DOMAIN f}

\* C7 (amended): a step writes to the store only for a symbol whose own pass has
\* completed in memory for all listed methods, and writes only rows of that pass.
C7_NothingBeforeSymbolPass ==
    [][(predictions' # predictions \/ metrics' # metrics
            \/ model_selection' # model_selection) =>
        \E p \in Procs :
            /\ pc[p] \in {"insert_predictions", "canonicalize", "insert_metrics", "select"}
            /\ pc'[p] # pc[p]
            /\ Len(metric_for_selection[p]) = NumKnown(methods[p])
            /\ Len(rows_metrics[p]) = 2 * NumKnown(methods[p])
            /\ Len(rows_pred[p]) = horizon[p] * NumKnown(methods[p])
            /\ {WithoutRid(r) : r \in predictions' \ predictions} \subseteq Range(rows_pred[p])
            /\ {WithoutRid(r) : r \in metrics' \ metrics} \subseteq Range(rows_metrics[p])
            /\ \A r \in model_selection' \ model_selection :
                   /\ r.symbol = symbols[p][idx[p]]
                   /\ \E i \in 1..Len(metric_for_selection[p]) :
                          metric_for_selection[p][i] = <<r.best_method, r.value>>]_vars

\* the rows of the first symbol are in the store and the pass of the second
\* symbol, another symbol with history, has not started
C7_Witness ==
    /\ pc["p1"] = "forecast"
    /\ idx["p1"] = 2
    /\ symbols["p1"][1] # symbols["p1"][2]
    /\ prices[symbols["p1"][2]] # <<>>
    /\ \E r \in predictions : r.symbol = symbols["p1"][1]
    /\ \E r \in metrics : r.symbol = symbols["p1"][1]
    /\ \E r \in model_selection : r.symbol = symbols["p1"][1]

\* C8: a model_selection row never exists without the metric rows of its run:
\* the RMSE row it was chosen from and the MAE row of the same method.
C8_SelectionLast ==
    \A sel \in model_selection :
        /\ \E m \in metrics :
              /\ m.symbol = sel.symbol /\ m.asof_ts = sel.asof_ts
              /\ m.method = sel.best_method /\ m.metric = "RMSE" /\ m.value = sel.value
        /\ \E m \in metrics :
              /\ m.symbol = sel.symbol /\ m.asof_ts = sel.asof_ts
              /\ m.method = sel.best_method /\ m.metric = "MAE"

\* "selection pending": the run's predictions and metrics are written, its
\* selection row is not, and the run has one to write
C8_Witness ==
    /\ pc["p1"] = "select"
    /\ SelectBest(metric_for_selection["p1"]).method # None
    /\ \E r \in predictions :
          r.symbol = symbols["p1"][idx["p1"]] /\ r.asof_ts = asof_ts["p1"]
    /\ \E r \in metrics :
          r.symbol = symbols["p1"][idx["p1"]] /\ r.asof_ts = asof_ts["p1"]
    /\ ~ \E r \in model_selection :
          r.symbol = symbols["p1"][idx["p1"]] /\ r.asof_ts = asof_ts["p1"]

\* ---- selector
Selects(p) == pc[p] = "select" /\ pc'[p] # "select"

FiniteAt(pairs) == {i \in 1..Len(pairs) : ~IsNaN(pairs[i][2])}

\* C9: the selection step writes no row when every RMSE of the run is NaN, and
\* otherwise exactly one row, for the run's symbol and asof, naming a method of
\* the run with its own RMSE, which is not NaN and not above any RMSE of the run
\* that is not NaN.
C9_SmallestRmse ==
    [][\A p \in Procs :
          Selects(p) =>
              LET pairs == metric_for_selection[p]
                  new == model_selection' \ model_selection
              IN  IF FiniteAt(pairs) = {} THEN new = {}
                  ELSE \E r \in new :
                          /\ new = {r}
                          /\ r.symbol = symbols[p][idx[p]] /\ r.asof_ts = asof_ts[p]
                          /\ r.metric = "RMSE"
                          /\ \E i \in FiniteAt(pairs) : pairs[i] = <<r.best_method, r.value>>
                          /\ \A i \in FiniteAt(pairs) : r.value <= pairs[i][2]]_vars

\* the example of the specification: naive_last above sma_7, arima NaN, and the
\* row written names sma_7 with its RMSE
C9_Witness ==
    \E sel \in model_selection, n \in metrics, a \in metrics, m \in metrics :
        /\ sel.best_method = "sma_7"
        /\ m.method = "sma_7" /\ m.metric = "RMSE" /\ m.value = sel.value
        /\ n.method = "naive_last" /\ n.metric = "RMSE" /\ n.value > sel.value
        /\ a.method = "arima" /\ a.metric = "RMSE" /\ IsNaN(a.value)
        /\ \A r \in {n, a, m} : r.symbol = sel.symbol /\ r.asof_ts = sel.asof_ts

\* the sequence pairs in the order perm
Permuted(pairs, perm) == [i \in 1..Len(pairs) |-> pairs[perm[i]]]

Orderings(n) == {f \in [1..n -> 1..n] : \A i \in 1..n : \E j \in 1..n : f[j] = i}

\* C10 (as stated): the method selected does not depend on the order in which
\* the caller lists the methods.
C10_OrderIndependent ==
    \A p \in Procs :
        pc[p] = "select" =>
            \A perm \in Orderings(Len(metric_for_selection[p])) :
                SelectBest(Permuted(metric_for_selection[p], perm)).method
                    = SelectBest(metric_for_selection[p]).method

\* the first position of method m in the list ms
Pos(ms, m) == CHOOSE i \in 1..Len(ms) : ms[i] = m /\ \A j \in 1..(i - 1) : ms[j] # m

\* C10 (amended): among the methods of the run that share the minimal RMSE, the
\* row written names the one listed first in the methods argument of the call.
C10_FirstMinimalAsListed ==
    [][\A p \in Procs :
          Selects(p) =>
              \A r \in model_selection' \ model_selection :
                  \A i \in 1..Len(metric_for_selection[p]) :
                      metric_for_selection[p][i][2] = r.value =>
                          Pos(methods[p], r.best_method)
                              <= Pos(methods[p], metric_for_selection[p][i][1])]_vars

\* a tie decided by the caller's order: arima is listed before naive_last, both
\* have the same RMSE, and the row names arima
C10_Witness ==
    /\ pc["p1"] = "done"
    /\ methods["p1"] = <<"arima", "naive_last">>
    /\ \E sel \in model_selection, n \in metrics :
          /\ sel.best_method = "arima"
          /\ n.symbol = sel.symbol /\ n.asof_ts = sel.asof_ts
          /\ n.method = "naive_last" /\ n.metric = "RMSE" /\ n.value = sel.value

\* ---- model_selection
\* C11 (as stated): model_selection holds at most one row per (symbol, asof).
C11_OneSelectionPerAsof ==
    \A r \in model_selection, q \in model_selection :
        (r.symbol = q.symbol /\ r.asof_ts = q.asof_ts) => r = q

\* ---- backtest
\* every price series of 1..MaxLen observations
AllSeries == UNION {[1..n -> 1..MaxPrice] : n \in 1..MaxLen}

\* y and z have position t and agree on every position before t (1-based)
AgreeBefore(y, z, t) ==
    /\ t <= Len(y) /\ t <= Len(z)
    /\ \A i \in 1..(t - 1) : y[i] = z[i]

\* the history of the symbol a caller is working on
HistoryOf(p) == prices[symbols[p][idx[p]]]

\* C12 (as stated): for each of the four methods the one-step prediction at a
\* position depends only on the values before it: the history of a run and any
\* series that agrees with it before position t get the same prediction at t.
C12_LeakageFree ==
    \A p \in Procs :
        pc[p] = "insert_predictions" =>
            \A m \in KnownMethods, z \in AllSeries :
                \A fit \in FitChoices(<<m>>, HistoryOf(p)), t \in 2..Len(z) :
                    AgreeBefore(HistoryOf(p), z, t) =>
                        OneStepPredictions(HistoryOf(p), m, has_arima, fit)[t]
                            = OneStepPredictions(z, m, has_arima, fit)[t]

\* ---- sma_7
\* the mean of y[lo..hi], in units of 1/Scale
MeanOfPositions(y, lo, hi) == (Scale * SumSeq(SubSeq(y, lo, hi))) \div (hi - lo + 1)

\* the one-step predictions the claim describes: at (1-based) position t >= 2
\* the mean of the seven positions before t, or of all of them when fewer
WindowBefore(y) ==
    [t \in 1..Len(y) |->
        IF t = 1 THEN NaN
        ELSE MeanOfPositions(y, IF t - 7 < 1 THEN 1 ELSE t - 7, t - 1)]

\* C13: the sma_7 backtest of a run predicts each position but the first by the
\* mean of the (up to) seven positions before it, never the position itself, and
\* the run's sma_7 metrics are those of these predictions; for the series 1..8
\* the prediction of the last position is 4, the mean of 1..7, not 5.
C13_SmaShiftedWindow ==
    /\ OneStepPredictions(Ramp(8), "sma_7", has_arima, "exact")[8] = FP(4)
    /\ \A p \in Procs :
          (pc[p] = "insert_predictions"
              /\ \E i \in 1..Len(methods[p]) : methods[p][i] = "sma_7") =>
            LET y == HistoryOf(p)
            IN  /\ OneStepPredictions(y, "sma_7", has_arima, "exact") = WindowBefore(y)
                /\ \A i \in 1..Len(rows_metrics[p]) :
                      LET r == rows_metrics[p][i]
                      IN  r.method = "sma_7" =>
                              r.value = Metrics(y, WindowBefore(y))[r.metric]

\* a run on the series 1..9: the window of the last position has left the first
\* observation behind, and the run's sma_7 RMSE is in its rows
C13_Witness ==
    /\ pc["p1"] = "insert_predictions"
    /\ methods["p1"] = <<"sma_7">>
    /\ HistoryOf("p1") = Ramp(9)
    /\ WindowBefore(Ramp(9))[9] = FP(5)
    /\ \E i \in 1..Len(rows_metrics["p1"]) :
          /\ rows_metrics["p1"][i].metric = "RMSE"
          /\ rows_metrics["p1"][i].value > 0

\* ---- arima
Lists(ms, m) == \E i \in 1..Len(ms) : ms[i] = m

\* the rows of method m among the rows of a run, in order
RowsOfMethod(rows, m) == SelectSeq(rows, LAMBDA r : r.method = m)

\* the pass of caller p ends (it goes on to the inserts, or raises)
PassEnds(p) == pc[p] = "forecast" /\ pc'[p] # "forecast"

\* C14: on a history of one to four points a pass that lists arima does not
\* raise, and its arima rows are, step for step of the horizon, what
\* forecast_naive_last returns on the same inputs (future timestamp, yhat, lower,
\* upper), with statsmodels and without.
C14_ArimaFallsBack ==
    [][\A p \in Procs :
          (PassEnds(p) /\ Lists(methods[p], "arima")
              /\ 1 <= Len(HistoryOf(p)) /\ Len(HistoryOf(p)) < 5) =>
            LET y == HistoryOf(p)
                ts == price_ts[symbols[p][idx[p]]]
                fr == ForecastNaiveLast(y, horizon[p], InferFreq(ts), ts[Len(y)])
            IN  /\ pc'[p] = "insert_predictions"
                /\ RowsOfMethod(rows_pred'[p], "arima") =
                      [h \in 1..horizon[p] |->
                          [symbol |-> symbols[p][idx[p]], ts |-> fr.future_ts[h],
                           horizon |-> h, method |-> "arima", yhat |-> fr.yhat[h],
                           yhat_lower |-> fr.lower[h], yhat_upper |-> fr.upper[h],
                           asof_ts |-> asof_ts'[p]]]]_vars

\* statsmodels is there, the history has four points and the longest horizon is
\* asked for: the arima rows carry the band of naive_last, which is not a point
C14_Witness ==
    /\ pc["p1"] = "insert_predictions"
    /\ has_arima
    /\ Len(HistoryOf("p1")) = 4
    /\ horizon["p1"] = MaxSteps
    /\ Len(RowsOfMethod(rows_pred["p1"], "arima")) = MaxSteps
    /\ \A i \in 1..Len(rows_pred["p1"]) :
          LET r == rows_pred["p1"][i]
          IN  r.method = "arima" => r.yhat_lower < r.yhat /\ r.yhat < r.yhat_upper

\* C15 (as stated): an error of the ARIMA fit never makes predict_for_symbol
\* fail: a call that has raised is a call on a symbol without history.
C15_FitErrorsCaught ==
    \A p \in Procs : pc[p] = "raised" => HistoryOf(p) = <<>>

\* ---- future timestamps
\* the timestamps of the history of the symbol a caller is working on
StampsOf(p) == price_ts[symbols[p][idx[p]]]

\* C16: for every method a completed pass has processed, the rows of the method
\* are one for each step 1..horizon, their timestamps increase strictly with the
\* step, and the first one lies strictly after the last observed timestamp.
C16_FutureTimestamps ==
    \A p \in Procs :
        pc[p] = "insert_predictions" =>
            \A m \in KnownMethods :
                Lists(methods[p], m) =>
                    LET rs == RowsOfMethod(rows_pred[p], m)
                        ts == StampsOf(p)
                    IN  /\ Len(rs) = horizon[p]
                        /\ \A h \in 1..Len(rs) : rs[h].horizon = h
                        /\ rs[1].ts > ts[Len(ts)]
                        /\ \A h \in 1..(Len(rs) - 1) : rs[h].ts < rs[h + 1].ts

\* a pass over the four methods at the longest horizon, the ARIMA model fitted,
\* on observations seven hours apart: the inferred frequency is hourly
C16_Witness ==
    /\ pc["p1"] = "insert_predictions"
    /\ methods["p1"] = DefaultMethods
    /\ horizon["p1"] = MaxSteps
    /\ has_arima /\ Len(HistoryOf("p1")) >= 5
    /\ InferFreq(StampsOf("p1")) = "H"
    /\ Len(rows_pred["p1"]) = 4 * MaxSteps
    /\ \E i \in 1..Len(rows_pred["p1"]) :
          /\ rows_pred["p1"][i].horizon = MaxSteps
          /\ rows_pred["p1"][i].ts = StampsOf("p1")[Len(StampsOf("p1"))] + MaxSteps * Hour

\* ---- metrics
\* the positions where the true value and the one-step prediction are defined
DefinedAt(y, preds) == {t \in 2..Len(y) : ~IsNaN(preds[t])}

RECURSIVE SumOver(_, _)
SumOver(S, f) ==
    IF S = {} THEN 0
    ELSE LET t == CHOOSE x \in S : TRUE IN f[t] + SumOver(S \ {t}, f)

\* the metrics the claim describes, position by position
MetricsOver(y, preds) ==
    LET D == DefinedAt(y, preds)
        e == [t \in D |-> FP(y[t]) - preds[t]]
    IN  IF D = {} THEN [RMSE |-> NaN, MAE |-> NaN]
        ELSE [RMSE |-> ISqrt(SumOver(D, [t \in D |-> e[t] * e[t]]) \div Cardinality(D)),
              MAE |-> SumOver(D, [t \in D |-> Abs(e[t])]) \div Cardinality(D)]

\* the metric rows of method m for the metrics mm
MetricRows(symbol, asof, m, mm) ==
    << [symbol |-> symbol, asof_ts |-> asof, method |-> m, metric |-> "RMSE",
        value |-> mm.RMSE],
       [symbol |-> symbol, asof_ts |-> asof, method |-> m, metric |-> "MAE",
        value |-> mm.MAE] >>

\* C17: a pass that does not raise in a forecast leaves, for every method it
\* processed, the RMSE and the MAE over exactly the positions where true value
\* and one-step prediction are both defined, and NaN for both when there is no
\* such position; computing the metrics never makes the pass raise.
C17_MetricsOverDefined ==
    [][\A p \in Procs :
          (PassEnds(p) /\ HistoryOf(p) # <<>>) =>
            \E fit \in FitChoices(methods[p], HistoryOf(p)) :
                IF ForecastArimaRaises(HistoryOf(p), has_arima, fit)
                THEN pc'[p] = "raised"
                ELSE /\ pc'[p] = "insert_predictions"
                     /\ \A m \in KnownMethods :
                           Lists(methods[p], m) =>
                               RowsOfMethod(rows_metrics'[p], m) =
                                   MetricRows(symbols[p][idx[p]], asof_ts'[p], m,
                                       MetricsOver(HistoryOf(p),
                                           OneStepPredictions(HistoryOf(p), m,
                                                              has_arima, fit)))]_vars

\* both cases in one pass: the fitted model predicts the last of six positions
\* only, so the arima metrics are those of that single position (2 - 7/5), while
\* naive_last is measured over all five predicted positions
C17_Witness ==
    /\ pc["p1"] = "insert_predictions"
    /\ HistoryOf("p1") = Cycle(1, 2, 6)
    /\ \E i \in 1..Len(rows_metrics["p1"]), j \in 1..Len(rows_metrics["p1"]) :
          /\ rows_metrics["p1"][i].method = "arima"
          /\ rows_metrics["p1"][i].metric = "RMSE"
          /\ rows_metrics["p1"][i].value = (3 * Scale) \div 5
          /\ rows_metrics["p1"][j].method = "naive_last"
          /\ rows_metrics["p1"][j].metric = "RMSE"
          /\ rows_metrics["p1"][j].value = Scale

\* ---- constant histories
IsConstant(y) == y # <<>> /\ \A i \in 1..Len(y) : y[i] = y[1]

\* C18: on a constant history of any length the naive_last rows of a pass carry,
\* at every step of the horizon, the constant as yhat and as both bounds; four
\* observations of 100 with horizon 3 give 100, 100, 100 for the three arrays.
C18_NaiveOnConstant ==
    /\ LET fr == ForecastNaiveLast(<<100, 100, 100, 100>>, 3, "D", 4 * Day)
       IN  /\ fr.yhat = <<FP(100), FP(100), FP(100)>>
           /\ fr.lower = fr.yhat /\ fr.upper = fr.yhat
    /\ \A p \in Procs :
          (pc[p] = "insert_predictions" /\ IsConstant(HistoryOf(p))
              /\ Lists(methods[p], "naive_last")) =>
            LET rs == RowsOfMethod(rows_pred[p], "naive_last")
            IN  /\ Len(rs) = horizon[p]
                /\ \A h \in 1..Len(rs) :
                      /\ rs[h].yhat = FP(HistoryOf(p)[1])
                      /\ rs[h].yhat_lower = rs[h].yhat
                      /\ rs[h].yhat_upper = rs[h].yhat

\* a pass at the longest horizon over a single observation, whose residual
\* deviation is undefined
C18_Witness ==
    /\ pc["p1"] = "insert_predictions"
    /\ Len(HistoryOf("p1")) = 1
    /\ horizon["p1"] = MaxSteps
    /\ Len(RowsOfMethod(rows_pred["p1"], "naive_last")) = MaxSteps

\* the gbm_mc rows an earlier run on the same symbol left in the table carry the
\* timestamps and values of the rows rs of this pass
SameAsEarlierRuns(p, rs) ==
    \A r \in predictions :
        (r.method = "gbm_mc" /\ r.symbol = symbols[p][idx[p]]) =>
            /\ r.horizon \in 1..Len(rs)
            /\ [rs[r.horizon] EXCEPT !.asof_ts = r.asof_ts] = WithoutRid(r)

\* a pass over a constant history that lists gbm_mc has completed
GbmOnConstant(p) ==
    /\ pc[p] = "insert_predictions"
    /\ IsConstant(HistoryOf(p))
    /\ Lists(methods[p], "gbm_mc")

LastOf(p) == FP(HistoryOf(p)[Len(HistoryOf(p))])

\* C19 (as stated): on a constant history the gbm_mc rows of a pass carry the
\* last value as yhat at every step of the horizon, with both bounds equal to
\* yhat, and an earlier run on the same history has left the same values.
C19_GbmOnConstant ==
    \A p \in Procs :
        GbmOnConstant(p) =>
            LET rs == RowsOfMethod(rows_pred[p], "gbm_mc")
            IN  /\ Len(rs) = horizon[p]
                /\ \A h \in 1..Len(rs) :
                      /\ rs[h].yhat = LastOf(p)
                      /\ rs[h].yhat_lower = rs[h].yhat
                      /\ rs[h].yhat_upper = rs[h].yhat
                /\ SameAsEarlierRuns(p, rs)

\* C19 (amended): on a constant history the estimates are mu = 0 (a growth
\* factor of one) and sigma = 0; at every step of the horizon both bounds of the
\* gbm_mc rows equal the last value exactly, and yhat is the floating-point mean
\* of n_sims copies of it, within n_sims roundings of the last value; an earlier
\* run on the same history has left the same timestamps and values.
C19_GbmOnConstantUpToRounding ==
    /\ LET fr == ForecastGbmMc(<<0, 0, 0>>, 2, "D", 3 * Day)
       IN  fr.yhat = <<0, 0>> /\ fr.lower = fr.yhat /\ fr.upper = fr.yhat
    /\ \A p \in Procs :
          GbmOnConstant(p) =>
            LET rs == RowsOfMethod(rows_pred[p], "gbm_mc")
            IN  /\ ExpGrowth(HistoryOf(p)) = GScale
                /\ EqualRatios(Positive(HistoryOf(p)))
                /\ Len(rs) = horizon[p]
                /\ \A h \in 1..Len(rs) :
                      /\ rs[h].yhat_lower = LastOf(p)
                      /\ rs[h].yhat_upper = LastOf(p)
                      /\ Abs(rs[h].yhat - LastOf(p)) * Pow2(MantissaBits)
                            <= 2 * NSims * LastOf(p)
                /\ SameAsEarlierRuns(p, rs)

\* the second run of a batch on a constant history of three or more points (two
\* or more log-returns, so that mu and sigma are estimated), at the longest
\* horizon, with the rows of the first run in the table under another asof; the
\* mean over the paths has been rounded away from the last value
C19_Witness ==
    /\ pc["p1"] = "insert_predictions"
    /\ idx["p1"] = 2
    /\ IsConstant(HistoryOf("p1")) /\ Len(HistoryOf("p1")) >= 3
    /\ horizon["p1"] = MaxSteps
    /\ Len(RowsOfMethod(rows_pred["p1"], "gbm_mc")) = MaxSteps
    /\ \E r \in predictions : r.method = "gbm_mc" /\ r.asof_ts < asof_ts["p1"]
    /\ \E i \in 1..Len(rows_pred["p1"]) :
          /\ rows_pred["p1"][i].method = "gbm_mc"
          /\ rows_pred["p1"][i].yhat # rows_pred["p1"][i].yhat_lower

\* ---- frequency
\* the successive deltas of the timestamps ts
Deltas(ts) == [i \in 1..(Len(ts) - 1) |-> ts[i + 1] - ts[i]]

\* the k-th smallest entry of the sequence d, counted with repetitions
KthSmallest(d, k) ==
    CHOOSE x \in Range(d) :
        /\ Cardinality({i \in DOMAIN d : d[i] < x}) < k
        /\ k <= Cardinality({i \in DOMAIN d : d[i] <= x})

\* twice the median of d: the middle entry, or the mean of the two middle ones
TwiceMedian(d) ==
    KthSmallest(d, (Len(d) + 1) \div 2) + KthSmallest(d, Len(d) \div 2 + 1)

\* the frequency the claim describes
FreqOf(ts) ==
    IF Len(ts) < 2 THEN "D"
    ELSE LET m2 == TwiceMedian(Deltas(ts))
         IN  IF 2 * 23 * Hour <= m2 /\ m2 <= 2 * 25 * Hour THEN "D"
             ELSE IF 2 * 6 * Hour + Hour <= m2 /\ m2 <= 2 * 7 * Hour + Hour THEN "H"
             ELSE "D"

\* C20: the frequency inferrer answers for every history and a pass never raises
\* on its account: daily for fewer than two timestamps, daily for a median delta
\* in [23h, 25h], hourly for one in [6.5h, 7.5h], ends included, daily for every
\* other median; the future timestamps of the pass advance by that frequency.
C20_InferFreqTotal ==
    \A p \in Procs :
        /\ (pc[p] = "raised" => HistoryOf(p) = <<>>)
        /\ pc[p] = "insert_predictions" =>
              LET ts == StampsOf(p)
              IN  /\ InferFreq(ts) \in {"D", "H"}
                  /\ InferFreq(ts) = FreqOf(ts)
                  /\ \A i \in 1..Len(rows_pred[p]) :
                        rows_pred[p][i].ts = ts[Len(ts)] + rows_pred[p][i].horizon *
                            (IF FreqOf(ts) = "H" THEN Hour ELSE Day)

\* three deltas whose median is the upper end of the hourly interval, 7.5h, with
\* a delta beyond the end and a daily one around it: the pass steps by the hour
C20_Witness ==
    /\ pc["p1"] = "insert_predictions"
    /\ Len(StampsOf("p1")) = 4
    /\ TwiceMedian(Deltas(StampsOf("p1"))) = 15 * Hour
    /\ \E i \in 1..3 : Deltas(StampsOf("p1"))[i] = 7 * Hour + HalfHour + 1
    /\ \E i \in 1..3 : Deltas(StampsOf("p1"))[i] = 7 * Hour
    /\ rows_pred["p1"] # <<>>
    /\ rows_pred["p1"][1].ts = StampsOf("p1")[4] + Hour

\* ---- the rows a run writes
\* caller p executes its INSERT INTO predictions
WritesPredictions(p) == pc[p] = "insert_predictions" /\ pc'[p] = "canonicalize"

\* how often the list ms names the method m
Occurrences(ms, m) == Cardinality({i \in 1..Len(ms) : ms[i] = m})

\* C21 (as stated): every prediction row a run writes has one of the four
\* methods and a horizon of 1 or more; for each method processed the run writes
\* exactly one row for each step 1..horizon, the timestamps increasing strictly
\* with the step.
C21_OneRowPerStep ==
    [][\A p \in Procs :
          WritesPredictions(p) =>
            LET new == predictions' \ predictions
            IN  /\ \A r \in new : r.method \in KnownMethods /\ r.horizon >= 1
                /\ \A m \in KnownMethods :
                      Lists(methods[p], m) =>
                          \A h \in 1..horizon[p] :
                              Cardinality({r \in new : r.method = m /\ r.horizon = h}) = 1
                /\ \A r \in new, q \in new :
                      (r.method = q.method /\ r.horizon < q.horizon) => r.ts < q.ts]_vars

\* C21 (amended): every prediction row a run writes has one of the four methods
\* and a horizon in 1..horizon; for each of the four methods and each step
\* 1..horizon the run writes one row for every time the methods list names the
\* method (exactly one when the list names it once, none when it does not), and
\* the timestamps of a method's rows increase strictly with the step.
C21_OneRowPerStepAndListing ==
    [][\A p \in Procs :
          WritesPredictions(p) =>
            LET new == predictions' \ predictions
            IN  /\ \A r \in new : r.method \in KnownMethods /\ r.horizon \in 1..horizon[p]
                /\ \A m \in KnownMethods, h \in 1..horizon[p] :
                      Cardinality({r \in new : r.method = m /\ r.horizon = h})
                          = Occurrences(methods[p], m)
                /\ \A r \in new, q \in new :
                      /\ (r.method = q.method /\ r.horizon < q.horizon) => r.ts < q.ts
                      /\ (r.method = q.method /\ r.horizon = q.horizon) => r.ts = q.ts]_vars

\* a run whose list names naive_last twice has written two rows for each step of
\* the longest horizon
C21_Witness ==
    /\ pc["p1"] = "canonicalize"
    /\ methods["p1"] = <<"naive_last", "naive_last">>
    /\ horizon["p1"] = MaxSteps
    /\ Cardinality(predictions) = 2 * MaxSteps
    /\ \A h \in 1..MaxSteps : Cardinality({r \in predictions : r.horizon = h}) = 2

\* ---- frame
\* caller p executes its sweep
Sweeps(p) == pc[p] = "canonicalize" /\ pc'[p] = "insert_metrics"

\* the rows of T' that were in T (same rowid) are the rows they were
SameRows(T, Tnew) == \A r \in T, q \in Tnew : r.rid = q.rid => r = q

\* C22: no step changes a stored row; rows of metrics and model_selection are
\* never deleted; a sweep adds no prediction row and deletes only rows whose
\* asof is below the greatest asof of their key; every other step deletes no
\* prediction row.
C22_RowsNeverMutated ==
    [][/\ SameRows(predictions, predictions')
       /\ SameRows(metrics, metrics')
       /\ SameRows(model_selection, model_selection')
       /\ metrics \subseteq metrics'
       /\ model_selection \subseteq model_selection'
       /\ IF \E p \in Procs : Sweeps(p)
          THEN /\ predictions' \subseteq predictions
               /\ \A r \in predictions \ predictions' :
                      r.asof_ts < MaxAsofOf(predictions, Key(r))
          ELSE predictions \subseteq predictions']_vars

\* both runs are done, the sweep has deleted the rows of the older one, and the
\* metric rows and the selection rows of both runs are in the store
C22_Witness ==
    /\ pc["p1"] = "done" /\ pc["p2"] = "done"
    /\ asof_ts["p1"] # asof_ts["p2"]
    /\ SweepDeleted
    /\ predictions # {}
    /\ \A p \in Procs :
          /\ \E r \in metrics : r.asof_ts = asof_ts[p]
          /\ \E r \in model_selection : r.asof_ts = asof_ts[p]

\* ---- a history of one point
\* caller p has a call under way or behind it
Called(p) == pc[p] # "idle"

\* C23: a run on a history of exactly one point does not raise; its pass leaves
\* the prediction rows of every method processed and, for each of them, an RMSE
\* and an MAE row whose value is NaN; the run writes these rows and writes no
\* model_selection row.
C23_OnePointHistory ==
    \A p \in Procs :
        (Called(p) /\ Len(HistoryOf(p)) = 1) =>
            /\ pc[p] # "raised"
            /\ pc[p] # "forecast" =>
                  /\ Len(rows_pred[p]) = horizon[p] * NumKnown(methods[p])
                        \/ pc[p] = "done"
                  /\ \A i \in 1..Len(rows_metrics[p]) : IsNaN(rows_metrics[p][i].value)
                  /\ SelectionRows(symbols[p][idx[p]], asof_ts[p],
                                   metric_for_selection[p]) = <<>>
            /\ \A r \in metrics : r.symbol = symbols[p][idx[p]] => IsNaN(r.value)
            /\ \A r \in model_selection : r.symbol # symbols[p][idx[p]]
            /\ pc[p] = "done" =>
                  \A m \in KnownMethods :
                      Lists(methods[p], m) =>
                          /\ \A h \in 1..horizon[p] :
                                \E r \in predictions :
                                    /\ r.method = m /\ r.horizon = h
                                    /\ r.asof_ts = asof_ts[p]
                          /\ \A k \in {"RMSE", "MAE"} :
                                \E r \in metrics :
                                    /\ r.method = m /\ r.metric = k
                                    /\ r.asof_ts = asof_ts[p] /\ IsNaN(r.value)

\* with statsmodels there, a finished run over the four methods on one point:
\* eight NaN metric rows a run, prediction rows, no selection row
C23_Witness ==
    /\ pc["p1"] = "done"
    /\ has_arima
    /\ Len(HistoryOf("p1")) = 1
    /\ methods["p1"] = DefaultMethods
    /\ Len(symbols["p1"]) = 1
    /\ Cardinality(metrics) = 8
    /\ Cardinality(predictions) = 4 * horizon["p1"]
    /\ model_selection = {}

\* ---- interleaved runs
\* the run of caller p has executed line 357
Swept(p) == pc[p] \in {"insert_metrics", "select", "done"}

\* the (key, asof) pairs of the rows the current run of caller p has inserted
InsertedBy(p) ==
    LET s == symbols[p][idx[p]]
        rows == RowsPred(methods[p], s, prices[s], price_ts[s], horizon[p],
                         asof_ts[p], has_arima, "exact")
    IN  {<<Key(rows[i]), rows[i].asof_ts>> : i \in 1..Len(rows)}

\* C24: in every interleaving of the statements of two runs on one store, once
\* each run has executed its canonicalization step every row of predictions
\* carries the greatest asof any of the runs inserted for the row's key, and
\* every key a run inserted is still there.
C24_InterleavedRunsCanonical ==
    (\A p \in Procs : Swept(p)) =>
        LET inserted == UNION {InsertedBy(p) : p \in Procs}
        IN  /\ \A r \in predictions :
                  r.asof_ts = MaxOf({e[2] : e \in {x \in inserted : x[1] = Key(r)}})
            /\ \A e \in inserted : \E r \in predictions : Key(r) = e[1]

\* both runs have swept; the run that read the clock first inserted last (the
\* other run's rows hold the first rowids), and its rows are gone
C24_Witness ==
    /\ \A p \in Procs : Swept(p)
    /\ asof_ts["p1"] < asof_ts["p2"]
    /\ InsertedBy("p1") # {}
    /\ {e[1] : e \in InsertedBy("p1")} = {e[1] : e \in InsertedBy("p2")}
    /\ \E r \in predictions : r.rid = 1
    /\ \A r \in predictions : r.asof_ts = asof_ts["p2"]

\* ---- what sequential runs leave behind
\* no statement makes a key of predictions disappear or lowers the greatest asof
\* the table holds for it
KeysAndMaxKept(T, Tnew) ==
    \A k \in KeysOf(T) :
        /\ k \in KeysOf(Tnew)
        /\ MaxAsofOf(Tnew, k) >= MaxAsofOf(T, k)

\* C25: over a sequence of runs executed one after the other, no step loses a
\* key that was inserted or the greatest asof inserted for it (so the greatest
\* asof in the table is the greatest ever inserted), and whenever no run stands
\* between its insert and its sweep every row carries that greatest asof.
C25_KeysKeptAtLatestAsof ==
    [][ /\ KeysAndMaxKept(predictions, predictions')
        /\ pc'["p1"] # "canonicalize" =>
              \A r \in predictions' : r.asof_ts = MaxAsofOf(predictions', Key(r))
      ]_vars

\* two completed runs on symbol A, the second with a later asof: the metrics of
\* both are there, the predictions of the second only
C25_Witness ==
    /\ pc["p1"] = "done"
    /\ symbols["p1"] = <<"A", "A">>
    /\ \E r \in metrics : r.asof_ts = 1
    /\ \E r \in metrics : r.asof_ts = 2
    /\ predictions # {}
    /\ \A r \in predictions : r.asof_ts = 2

\* ---- a re-run on an unchanged history
\* caller p is in (or through) the second of two runs on the same symbol, with
\* the same horizon and methods
Rerun(p) == Called(p) /\ Len(symbols[p]) = 2 /\ idx[p] = 2

\* the rows of T written at asof a
RowsAt(T, a) == {r \in T : r.asof_ts = a}

\* C26: when a run is repeated on the same history with the same horizon and
\* methods and a strictly later asof, the number of prediction rows of the
\* symbol is what it was after the first run and all of them carry the later
\* asof; metrics has grown by two rows for each method processed and
\* model_selection by at most one row.
C26_RerunReplacesPredictions ==
    \A p \in Procs :
        Rerun(p) =>
            LET n == NumKnown(methods[p])
                a == asof_ts[p]
            IN  /\ pc[p] = "forecast" =>
                      /\ Cardinality(predictions) = horizon[p] * n
                      /\ Cardinality(metrics) = 2 * n
                      /\ Cardinality(model_selection) <= 1
                /\ (pc[p] = "done" /\ \E r \in metrics : r.asof_ts < a) =>
                      /\ Cardinality(predictions) = horizon[p] * n
                      /\ \A r \in predictions : r.asof_ts = a
                      /\ Cardinality(metrics) = 4 * n
                      /\ Cardinality(RowsAt(metrics, a)) = 2 * n
                      /\ Cardinality(RowsAt(model_selection, a)) <= 1
                      /\ Cardinality(model_selection) <= 2

\* the four methods run twice over six prices, three steps ahead, the second
\* run one tick later: twelve prediction rows, sixteen metric rows, two
\* selection rows
C26_Witness ==
    /\ Rerun("p1") /\ pc["p1"] = "done"
    /\ methods["p1"] = DefaultMethods
    /\ horizon["p1"] = MaxSteps
    /\ Len(HistoryOf("p1")) = MaxLen
    /\ Cardinality(predictions) = 4 * MaxSteps
    /\ \A r \in predictions : r.asof_ts = 2
    /\ Cardinality(RowsAt(metrics, 1)) = 8
    /\ Cardinality(RowsAt(metrics, 2)) = 8
    /\ Cardinality(model_selection) = 2

\* ---- the selection row against the metric rows
\* C27: every model_selection row has a metrics row with its symbol, asof,
\* method, metric 'RMSE' and value, and no RMSE row of metrics with the same
\* symbol and asof has a smaller value that is not NaN.
C27_SelectionIsLeastRmse ==
    \A s \in model_selection :
        /\ \E r \in metrics :
              /\ r.symbol = s.symbol /\ r.asof_ts = s.asof_ts
              /\ r.method = s.best_method /\ r.metric = "RMSE" /\ r.value = s.value
        /\ \A r \in metrics :
              (/\ r.symbol = s.symbol /\ r.asof_ts = s.asof_ts
               /\ r.metric = "RMSE" /\ ~IsNaN(r.value)) => r.value >= s.value

\* ---- SpecTwo: two runs of predict_for_symbol one after the other, each with
\* its own symbol, horizon and methods; symbol A has any history, symbol B none
CallAfter(p, q) ==
    /\ Ended(q)
    /\ CallPredictForSymbol(p)

NextTwo ==
    \/ CallPredictForSymbol("p1")
    \/ CallAfter("p2", "p1")
    \/ \E p \in Procs :
          \/ RunForecasts(p)
          \/ InsertPredictions(p)
          \/ Canonicalize(p)
          \/ InsertMetrics(p)
          \/ InsertSelection(p)

SpecTwo == InitRun /\ [][NextTwo]_vars

\* no run is under way, and the runs that went through read different clocks
BetweenRuns ==
    /\ \A p \in Procs : pc[p] \in {"idle", "done", "raised"}
    /\ (pc["p1"] = "done" /\ pc["p2"] = "done") => asof_ts["p1"] < asof_ts["p2"]

\* the model_selection rows of a symbol with the greatest asof (the row the
\* panel reads with ORDER BY asof_ts DESC LIMIT 1)
LatestSelection(s) ==
    LET rows == {r \in model_selection : r.symbol = s}
    IN  {r \in rows : \A q \in rows : q.asof_ts <= r.asof_ts}

\* C28: after runs executed one after the other with increasing asof and a
\* horizon of at least one, the latest model_selection row of a symbol names a
\* method of which predictions holds rows with the row's symbol and asof.
C28_LatestSelectionHasForecasts ==
    BetweenRuns =>
        \A s \in Symbols : \A sel \in LatestSelection(s) :
            \E r \in predictions :
                /\ r.symbol = s
                /\ r.method = sel.best_method
                /\ r.asof_ts = sel.asof_ts

\* two runs on A with different method lists: the second selects sma_7 one tick
\* after the first selected among the four methods, whose sma_7 rows are gone
C28_Witness ==
    /\ pc["p1"] = "done" /\ pc["p2"] = "done"
    /\ methods["p1"] = DefaultMethods
    /\ methods["p2"] = <<"ets", "sma_7">>
    /\ asof_ts["p1"] = 1 /\ asof_ts["p2"] = 2
    /\ Cardinality(model_selection) = 2
    /\ \E sel \in LatestSelection("A") : sel.asof_ts = 2 /\ sel.best_method = "sma_7"
    /\ \A r \in predictions : r.method = "sma_7" <=> r.asof_ts = 2

\* ---- the arima backtest on its fallback
\* the arima branch of _one_step_predictions ends on preds[1:] = y[:-1]: no
\* statsmodels, fewer than six points, or the fit raised
ArimaBacktestFallsBack(y, has, fit) ==
    \/ ~has
    \/ Len(y) < 6
    \/ fit \in {"raise_bt", "raise_fc"}

\* the value of the metric rows of table T for method m and metric k
ValuesOf(T, m, k) == {r.value : r \in {q \in T : q.method = m /\ q.metric = k}}

\* C29: on the history a run loads and for every outcome of the fit, when the
\* arima backtest falls back its one-step predictions are those of naive_last
\* at every position, RMSE and MAE of the two methods are equal, and the
\* selector over the default method order does not answer arima; a run with the
\* default methods whose backtest has to fall back (no statsmodels or fewer
\* than six points) writes equal metric rows for the two and no selection row
\* naming arima.
C29_ArimaFallbackIsNaive ==
    \A p \in Procs :
        (Called(p) /\ HistoryOf(p) # <<>>) =>
            LET y == HistoryOf(p)
            IN  /\ \A has \in BOOLEAN :
                   \A fit \in (IF has THEN ArimaFits ELSE {"exact"}) :
                      (pc[p] = "forecast" /\ ArimaBacktestFallsBack(y, has, fit)) =>
                          LET pa == OneStepPredictions(y, "arima", has, fit)
                              pn == OneStepPredictions(y, "naive_last", has, fit)
                          IN  /\ \A t \in 1..Len(y) : pa[t] = pn[t]
                              /\ Metrics(y, pa) = Metrics(y, pn)
                              /\ SelectBest(MetricForSelection(DefaultMethods, y, has, fit)).method
                                    # "arima"
                /\ (/\ methods[p] = DefaultMethods
                    /\ ArimaBacktestFallsBack(y, has_arima, "exact")) =>
                      /\ \A k \in {"RMSE", "MAE"} :
                            ValuesOf(metrics, "arima", k) = ValuesOf(metrics, "naive_last", k)
                      /\ \A r \in model_selection : r.best_method # "arima"
                      /\ SelectBest(metric_for_selection[p]).method # "arima"

\* statsmodels is there and the history has five points: the forecast fits, the
\* backtest falls back; the run with the default methods is through, arima and
\* naive_last have the same nonzero RMSE and the selection names another method
C29_Witness ==
    /\ pc["p1"] = "done"
    /\ has_arima
    /\ Len(HistoryOf("p1")) = 5
    /\ methods["p1"] = DefaultMethods
    /\ ValuesOf(metrics, "arima", "RMSE") = ValuesOf(metrics, "naive_last", "RMSE")
    /\ \E v \in ValuesOf(metrics, "arima", "RMSE") : ~IsNaN(v) /\ v > 0
    /\ model_selection # {}
    /\ \A r \in model_selection : r.best_method # "arima"

\* ---- the two arima thresholds
\* with statsmodels there, forecast_arima reaches the fit on history y (a fit
\* that raises makes the call raise) instead of returning forecast_naive_last
ForecastReachesFit(y) == ForecastArimaRaises(y, TRUE, "raise_fc")

\* with statsmodels there, the arima backtest on history y takes its
\* predictions from the fit (here a fit that predicts NaN) and not from value[t-1]
BacktestReachesFit(y) ==
    OneStepPredictions(y, "arima", TRUE, "nan") # OneStepPredictions(y, "naive_last", TRUE, "nan")

\* C30: with statsmodels there and the fit succeeding, on the history of any run
\* forecast_arima answers with the NaiveLast fallback exactly when the arima
\* backtest predicts value[t-1].
C30_ArimaFallbacksAgree ==
    \A p \in Procs :
        (has_arima /\ Called(p) /\ HistoryOf(p) # <<>>) =>
            (~ForecastReachesFit(HistoryOf(p)) <=> ~BacktestReachesFit(HistoryOf(p)))

====
